---- MODULE Spec2Model ----
(***************************************************************************)
(* Resize / render coordination of examples/wgpu-triangle/src/lib.rs.      *)
(*                                                                         *)
(* The program is driven by a browser host.  Program code runs in          *)
(* activations: a poll of a resize-callback task (wasm_bindgen_futures     *)
(* polls tasks from the microtask queue, so only when no program code is   *)
(* on the stack) and an invocation of a render loop's animation-frame      *)
(* closure.  An activation runs to completion except that, while it is     *)
(* inside a GPU call made under the State's mutable borrow                 *)
(* (surface.configure, State::render), the host - whose scheduling the     *)
(* program does not control - may invoke an animation-frame closure        *)
(* nested inside that call.  `stack` is the stack of activations,          *)
(* innermost last.                                                         *)
(*                                                                         *)
(* Lengths are kept in quarter CSS pixels so that the f64 arithmetic of    *)
(* the size computation (multiply, max(1.0), `as u32`) is modelled and not *)
(* assumed to be the identity.                                             *)
(***************************************************************************)
EXTENDS Integers, Sequences, FiniteSets, TLC

\* ---------------------------------------------------------------- bounds
MaxCallbacks == 2      \* resize callbacks the host delivers
MaxEntries   == 2      \* entries of one callback's array
MaxWidth     == 4      \* largest measured width, in quarter CSS pixels
MaxHeight    == 2      \* largest measured height, in quarter CSS pixels
MaxPixel     == 3      \* largest pixel length handed to State::resize directly

Callbacks == 1..MaxCallbacks
Rects     == (0..MaxWidth) \X (0..MaxHeight)   \* <<width, height>>
Dprs      == {1, 2}                    \* device pixel ratios

VARIABLES
  backend,       \* what the graphics backend does with a zero-area configure
  cb,            \* the resize-callback tasks
  states,        \* the Rc<RefCell<State>> objects ever created
  GLOBAL_STATE,  \* 0 for None, else an index into states
  installs,      \* history: the states stored into GLOBAL_STATE, in order
  loops,         \* the render loops; loop l renders states[l]
  stack,         \* the activations in progress, innermost last
  lastFrame,     \* how the frame closure run that the latest step ended went
  lastResize     \* the call of State::resize made by the latest step

vars == <<backend, cb, states, GLOBAL_STATE, installs, loops, stack, lastFrame,
          lastResize>>

\* ------------------------------------------------------- pure functions

\* `x as u32` for a non-negative f64 given in quarters: the fraction is
\* dropped.  (The cast saturates at 2^32 - 1, far above every length here.)
AsU32(quarters) == quarters \div 4

\* f64::max(1.0) on a value in quarters.
Max1(quarters) == IF quarters < 4 THEN 4 ELSE quarters

\* State::new, lines 24-29: no lower bound is applied.
CanvasPixelSize(client_rect, device_pixel_ratio) ==
  << AsU32(client_rect[1] * device_pixel_ratio),
     AsU32(client_rect[2] * device_pixel_ratio) >>

\* resize_callback_async, lines 218-222: at least one pixel.
NewSize(content_rect, device_pixel_ratio) ==
  << AsU32(Max1(content_rect[1] * device_pixel_ratio)),
     AsU32(Max1(content_rect[2] * device_pixel_ratio)) >>

\* What the two computations can yield for the rectangles and ratios the
\* host may report.
CanvasPixelSizes == {CanvasPixelSize(r, d) : r \in Rects, d \in Dprs}
NewSizes         == {NewSize(r, d) : r \in Rects, d \in Dprs}

ZeroArea(size) == size[1] = 0 \/ size[2] = 0

\* RefCell borrow flag: 0 is unused, -1 is mutably borrowed.
UNUSED  == 0
WRITING == -1

\* Faulty variant: the borrow is granted whatever the flag says.
TryBorrowMutUnchecked(flag) == TRUE

\* RefCell::try_borrow_mut: Ok exactly when the cell is not borrowed.
TryBorrowMut(flag) == flag = UNUSED

\* The State built by State::new (lines 64-75, 129-136), in its RefCell.
NewState(size) ==
  [size |-> size, surface_config |-> size, configured |-> size, borrow |-> UNUSED]

\* Faulty variant: self.size is not updated.
ResizeKeepsSize(st, new_size) ==
  IF ZeroArea(new_size)
    THEN [st |-> st, configures |-> 0]
    ELSE [st |-> [st EXCEPT !.surface_config = new_size, !.configured = new_size],
          configures |-> 1]

\* Faulty variant: the zero test is missing.
ResizeUnchecked(st, new_size) ==
  [st |-> [st EXCEPT !.size = new_size, !.surface_config = new_size,
                     !.configured = new_size],
   configures |-> 1]

\* Faulty variant: the new size is recorded but the surface is not configured.
ResizeNotConfigured(st, new_size) ==
  IF ZeroArea(new_size)
    THEN [st |-> st, configures |-> 0]
    ELSE [st |-> [st EXCEPT !.size = new_size, !.surface_config = new_size],
          configures |-> 0]

\* State::resize: the State afterwards and the number of surface.configure calls.
Resize(st, new_size) ==
  IF ZeroArea(new_size)
    THEN [st |-> st, configures |-> 0]
    ELSE [st |-> [st EXCEPT !.size = new_size, !.surface_config = new_size,
                            !.configured = new_size],
          configures |-> 1]

\* Faulty variant: the Lost arm resets the State to a default size.
ReconfigureDefaultSize(st) ==
  [st EXCEPT !.size = <<1, 1>>, !.surface_config = <<1, 1>>, !.configured = <<1, 1>>]

\* lines 322-324: surface.configure(&state.device, &state.surface_config)
Reconfigure(st) == [st EXCEPT !.configured = st.surface_config]

\* wgpu::SurfaceError
SurfaceErrors == {"Timeout", "Outdated", "Lost", "OutOfMemory", "Other"}
RenderResults == {"Ok"} \cup SurfaceErrors

\* Faulty variant: Lost is handled like any other error.
OnRenderResultLostIgnored(result) ==
  [reconfigure |-> FALSE,
   log         |-> result # "Ok",
   requests    |-> IF result = "OutOfMemory" THEN 0 ELSE 1]

\* Faulty variant: the OutOfMemory arm does not return.
OnRenderResultNeverStops(result) ==
  [reconfigure |-> result = "Lost",
   log         |-> result # "Ok",
   requests    |-> 1]

\* The arms of `match state.render()`, lines 319-334, and what follows them
\* (line 343): whether the surface is reconfigured, whether a message is
\* logged, and how many animation frames the closure then requests.
OnRenderResult(result) ==
  [reconfigure |-> result = "Lost",
   log         |-> result # "Ok",
   requests    |-> IF result = "OutOfMemory" THEN 0 ELSE 1]

\* ------------------------------------------------------------ the state

Dims(st) == <<st.size, st.surface_config>>

\* start_render_loop, lines 311-347: the closure exists and one frame is
\* requested.  `requests` counts the animation frames requested and not yet run.
NewLoop == [pc |-> "idle", requests |-> 1]

\* The latest step did not end a run of a frame closure.
NoFrame == [result |-> "none", logged |-> FALSE]

NewCallback ==
  [pc |-> "undelivered", len |-> 0, i |-> 0, promise |-> "none", size |-> <<0, 0>>]

\* The latest step did not call State::resize.
NoResize == [called |-> FALSE, new_size |-> <<0, 0>>, configures |-> 0]

Init ==
  /\ backend \in {"accepts_zero_area", "rejects_zero_area"}
  /\ cb = [c \in Callbacks |-> NewCallback]
  /\ states = <<>>
  /\ GLOBAL_STATE = 0
  /\ installs = <<>>
  /\ loops = <<>>
  /\ stack = <<>>
  /\ lastFrame = NoFrame
  /\ lastResize = NoResize

Top == stack[Len(stack)]
Pop == SubSeq(stack, 1, Len(stack) - 1)

\* The innermost activation is inside a GPU call made under the borrow.
InGpuCall ==
  /\ stack # <<>>
  /\ \/ Top[1] = "cb"    /\ cb[Top[2]].pc = "configuring"
     \/ Top[1] = "frame" /\ loops[Top[2]].pc \in {"rendering", "reconfiguring"}

HostMayEnter == stack = <<>> \/ InGpuCall

\* A step that neither ends a frame closure run nor calls State::resize.
Quiet == lastFrame' = NoFrame /\ lastResize' = NoResize

\* ------------------------------------------------- the resize callbacks

\* resize_callback, lines 298-309: future_to_promise queues the task and
\* returns its promise.  The host delivers callbacks one after another,
\* between activations, each with at least one entry.
Deliver(c, n) ==
  /\ stack = <<>>
  /\ cb[c].pc = "undelivered"
  /\ \A d \in Callbacks : d < c => cb[d].pc # "undelivered"
  /\ cb' = [cb EXCEPT ![c] = [@ EXCEPT !.pc = "queued", !.len = n,
                                       !.promise = "pending"]]
  /\ Quiet
  /\ UNCHANGED <<backend, states, GLOBAL_STATE, installs, loops, stack>>

\* First poll of the task: the task queue is first-in first-out and is run
\* only when no program code is on the stack.
PollStart(c) ==
  /\ stack = <<>>
  /\ cb[c].pc = "queued"
  /\ \A d \in Callbacks : d < c => cb[d].pc # "queued"
  /\ cb' = [cb EXCEPT ![c] = [@ EXCEPT !.pc = "running", !.i = 0]]
  /\ stack' = << <<"cb", c>> >>
  /\ Quiet
  /\ UNCHANGED <<backend, states, GLOBAL_STATE, installs, loops>>

Running(c) ==
  /\ stack # <<>>
  /\ Top = <<"cb", c>>
  /\ cb[c].pc = "running"

\* lines 238-245 and 24-44: GLOBAL_STATE is None, so State::new is entered; it
\* measures the canvas and suspends on request_adapter.
BeginCreate(c, size) ==
  /\ Running(c)
  /\ cb[c].i < cb[c].len
  /\ GLOBAL_STATE = 0
  /\ cb' = [cb EXCEPT ![c] = [@ EXCEPT !.pc = "await_adapter", !.size = size]]
  /\ stack' = Pop
  /\ Quiet
  /\ UNCHANGED <<backend, states, GLOBAL_STATE, installs, loops>>

\* lines 37-54: request_adapter completes; a failure is unwrapped, which
\* aborts the task (the promise is never settled).  On success the task
\* suspends again on request_device.
AdapterReady(c, ok) ==
  /\ stack = <<>>
  /\ cb[c].pc = "await_adapter"
  /\ cb' = [cb EXCEPT ![c] = IF ok THEN [@ EXCEPT !.pc = "await_device"]
                                   ELSE [@ EXCEPT !.pc = "trapped", !.size = <<0, 0>>]]
  /\ Quiet
  /\ UNCHANGED <<backend, states, GLOBAL_STATE, installs, loops, stack>>

\* lines 46-54: request_device fails and the unwrap aborts the task.
DeviceFailed(c) ==
  /\ stack = <<>>
  /\ cb[c].pc = "await_device"
  /\ cb' = [cb EXCEPT ![c] = [@ EXCEPT !.pc = "trapped", !.size = <<0, 0>>]]
  /\ Quiet
  /\ UNCHANGED <<backend, states, GLOBAL_STATE, installs, loops, stack>>

\* line 75: surface.configure with a zero width or height, on a backend that
\* validates the area, raises an uncaptured error and aborts the task.
ConfigureRejected(c) ==
  /\ stack = <<>>
  /\ cb[c].pc = "await_device"
  /\ ZeroArea(cb[c].size)
  /\ backend = "rejects_zero_area"
  /\ cb' = [cb EXCEPT ![c] = [@ EXCEPT !.pc = "trapped", !.size = <<0, 0>>]]
  /\ Quiet
  /\ UNCHANGED <<backend, states, GLOBAL_STATE, installs, loops, stack>>

\* lines 56-136 and 246-258: the State is built and configured, stored into
\* GLOBAL_STATE, and its render loop is started; the poll goes on with the
\* next entry.
DeviceReady(c) ==
  /\ stack = <<>>
  /\ cb[c].pc = "await_device"
  /\ ZeroArea(cb[c].size) => backend = "accepts_zero_area"
  /\ states' = Append(states, NewState(cb[c].size))
  /\ GLOBAL_STATE' = Len(states) + 1
  /\ installs' = Append(installs, Len(states) + 1)
  /\ loops' = Append(loops, NewLoop)
  /\ cb' = [cb EXCEPT ![c] = [@ EXCEPT !.pc = "running", !.i = @ + 1,
                                       !.size = <<0, 0>>]]
  /\ stack' = << <<"cb", c>> >>
  /\ Quiet
  /\ UNCHANGED <<backend>>

\* lines 267-291: GLOBAL_STATE holds a State.  Without the borrow the resize
\* is skipped; with it, State::resize is called when the size differs, and
\* the borrow is held across its surface.configure call.
ResizeEntry(c, new_size) ==
  /\ Running(c)
  /\ cb[c].i < cb[c].len
  /\ GLOBAL_STATE # 0
  /\ LET s        == GLOBAL_STATE
         st       == states[s]
         r        == Resize(st, new_size)
     IN  IF ~TryBorrowMut(st.borrow)
           THEN /\ cb' = [cb EXCEPT ![c].i = @ + 1]
                /\ lastResize' = NoResize
                /\ UNCHANGED states
         ELSE IF st.size = new_size
           THEN /\ cb' = [cb EXCEPT ![c].i = @ + 1]
                /\ lastResize' = [called |-> TRUE, new_size |-> new_size,
                                  configures |-> 0]
                /\ UNCHANGED states
         ELSE IF r.configures = 0
           THEN /\ cb' = [cb EXCEPT ![c].i = @ + 1]
                /\ lastResize' = [called |-> TRUE, new_size |-> new_size,
                                  configures |-> 0]
                /\ states' = [states EXCEPT ![s] = r.st]
         ELSE   /\ cb' = [cb EXCEPT ![c].pc = "configuring"]
                /\ lastResize' = [called |-> TRUE, new_size |-> new_size,
                                  configures |-> r.configures]
                /\ states' = [states EXCEPT ![s] = [r.st EXCEPT !.borrow = WRITING]]
  /\ lastFrame' = NoFrame
  /\ UNCHANGED <<backend, GLOBAL_STATE, installs, loops, stack>>

\* lines 194 and 284: surface.configure returns and the guard is dropped.
ConfigureReturn(c) ==
  /\ stack # <<>>
  /\ Top = <<"cb", c>>
  /\ cb[c].pc = "configuring"
  /\ states' = [states EXCEPT ![GLOBAL_STATE].borrow = UNUSED]
  /\ cb' = [cb EXCEPT ![c] = [@ EXCEPT !.pc = "running", !.i = @ + 1]]
  /\ Quiet
  /\ UNCHANGED <<backend, GLOBAL_STATE, installs, loops, stack>>

\* lines 294 and 301-302: every entry is done; the promise is fulfilled.
Finish(c) ==
  /\ Running(c)
  /\ cb[c].i = cb[c].len
  /\ cb' = [cb EXCEPT ![c] = [NewCallback EXCEPT !.pc = "resolved",
                                                !.promise = "fulfilled"]]
  /\ stack' = Pop
  /\ Quiet
  /\ UNCHANGED <<backend, states, GLOBAL_STATE, installs, loops>>

\* ----------------------------------------------------- the render loops

\* Faulty variant: the skipped frame does not request the next one.
SkippedFrameNotRescheduled(lp) == lp

\* lines 336-343: try_borrow_mut failed; log, then request the next frame.
SkippedFrame(lp) == [lp EXCEPT !.requests = @ + 1]

\* lines 315-319: the host runs a requested animation frame; with the borrow
\* the closure calls State::render.
FrameEnter(l) ==
  /\ HostMayEnter
  /\ l \in 1..Len(loops)
  /\ loops[l].requests > 0
  /\ loops[l].pc = "idle"
  /\ LET entered == [loops[l] EXCEPT !.requests = @ - 1]
     IN  IF TryBorrowMut(states[l].borrow)
           THEN /\ states' = [states EXCEPT ![l].borrow = WRITING]
                /\ loops' = [loops EXCEPT ![l] = [entered EXCEPT !.pc = "rendering"]]
                /\ stack' = Append(stack, <<"frame", l>>)
                /\ lastFrame' = NoFrame
           ELSE /\ loops' = [loops EXCEPT ![l] = SkippedFrame(entered)]
                /\ lastFrame' = [result |-> "skipped", logged |-> TRUE]
                /\ UNCHANGED <<states, stack>>
  /\ lastResize' = NoResize
  /\ UNCHANGED <<backend, cb, GLOBAL_STATE, installs>>

\* lines 139-180 and 319-343: State::render returns.  Lost enters
\* surface.configure; OutOfMemory returns without a further request; every
\* other result ends the closure with request_animation_frame.
RenderReturn(l, result) ==
  /\ stack # <<>>
  /\ Top = <<"frame", l>>
  /\ loops[l].pc = "rendering"
  /\ LET arm == OnRenderResult(result)
     IN  IF arm.reconfigure
           THEN /\ states' = [states EXCEPT ![l] = Reconfigure(@)]
                /\ loops' = [loops EXCEPT ![l].pc = "reconfiguring"]
                /\ lastFrame' = NoFrame
                /\ UNCHANGED stack
           ELSE /\ states' = [states EXCEPT ![l].borrow = UNUSED]
                /\ loops' = [loops EXCEPT ![l] =
                     [pc |-> "idle", requests |-> @.requests + arm.requests]]
                /\ stack' = Pop
                /\ lastFrame' = [result |-> result, logged |-> arm.log]
  /\ lastResize' = NoResize
  /\ UNCHANGED <<backend, cb, GLOBAL_STATE, installs>>

\* lines 321-326 and 343: the reconfiguration of the Lost arm returns; log,
\* drop the guard, request the next frame.
ReconfigureReturn(l) ==
  /\ stack # <<>>
  /\ Top = <<"frame", l>>
  /\ loops[l].pc = "reconfiguring"
  /\ LET arm == OnRenderResult("Lost")
     IN  /\ loops' = [loops EXCEPT ![l] =
              [pc |-> "idle", requests |-> @.requests + arm.requests]]
         /\ lastFrame' = [result |-> "Lost", logged |-> arm.log]
  /\ states' = [states EXCEPT ![l].borrow = UNUSED]
  /\ stack' = Pop
  /\ lastResize' = NoResize
  /\ UNCHANGED <<backend, cb, GLOBAL_STATE, installs>>

\* ---------------------------------------------------- the specification

Next ==
  \/ \E c \in Callbacks, n \in 1..MaxEntries : Deliver(c, n)
  \/ \E c \in Callbacks : PollStart(c)
  \/ \E c \in Callbacks, size \in CanvasPixelSizes : BeginCreate(c, size)
  \/ \E c \in Callbacks, ok \in BOOLEAN : AdapterReady(c, ok)
  \/ \E c \in Callbacks : DeviceFailed(c)
  \/ \E c \in Callbacks : ConfigureRejected(c)
  \/ \E c \in Callbacks : DeviceReady(c)
  \/ \E c \in Callbacks, new_size \in NewSizes : ResizeEntry(c, new_size)
  \/ \E c \in Callbacks : ConfigureReturn(c)
  \/ \E c \in Callbacks : Finish(c)
  \/ \E l \in 1..Len(loops) : FrameEnter(l)
  \/ \E l \in 1..Len(loops), res \in RenderResults : RenderReturn(l, res)
  \/ \E l \in 1..Len(loops) : ReconfigureReturn(l)

Spec == Init /\ [][Next]_vars

\* ------------------------------------------------------------- typing

Sizes == CanvasPixelSizes \cup NewSizes

TypeOK ==
  /\ backend \in {"accepts_zero_area", "rejects_zero_area"}
  /\ \A c \in Callbacks :
       /\ cb[c].pc \in {"undelivered", "queued", "running", "await_adapter",
                        "await_device", "configuring", "resolved", "trapped"}
       /\ cb[c].len \in 0..MaxEntries
       /\ cb[c].i \in 0..cb[c].len
       /\ cb[c].promise \in {"none", "pending", "fulfilled"}
       /\ cb[c].size \in Sizes
  /\ Len(states) <= MaxCallbacks
  /\ Len(loops) = Len(states)
  /\ \A s \in 1..Len(states) :
       /\ states[s].size \in Sizes
       /\ states[s].surface_config \in Sizes
       /\ states[s].borrow \in {UNUSED, WRITING}
  /\ GLOBAL_STATE \in 0..Len(states)
  /\ \A l \in 1..Len(loops) :
       /\ loops[l].pc \in {"idle", "rendering", "reconfiguring"}
       /\ loops[l].requests \in 0..1
  /\ lastFrame.result \in {"none", "skipped"} \cup RenderResults
  /\ lastResize.configures \in 0..1

\* ------------------------------------- State::resize called on its own

DirectSizes == (0..MaxPixel) \X (0..MaxPixel)

\* A State as State::new leaves it, for any canvas size, with nothing running.
InitResize ==
  /\ backend = "accepts_zero_area"
  /\ cb = [c \in Callbacks |-> NewCallback]
  /\ \E size \in DirectSizes : states = << NewState(size) >>
  /\ GLOBAL_STATE = 1
  /\ installs = <<1>>
  /\ loops = << NewLoop >>
  /\ stack = <<>>
  /\ lastFrame = NoFrame
  /\ lastResize = NoResize

\* State::resize, lines 182-195, called with any size.
DirectResize(new_size) ==
  /\ LET r == Resize(states[1], new_size)
     IN  /\ states' = [states EXCEPT ![1] = r.st]
         /\ lastResize' = [called |-> TRUE, new_size |-> new_size,
                           configures |-> r.configures]
  /\ UNCHANGED <<backend, cb, GLOBAL_STATE, installs, loops, stack, lastFrame>>

NextResize == \E new_size \in DirectSizes : DirectResize(new_size)

SpecResize == InitResize /\ [][NextResize]_vars

\* ============================================================== claims

States == 1..Len(states)
Loops  == 1..Len(loops)

\* The activations that hold the mutable borrow of states[s].
Holders(s) ==
  {<<"cb", c>> : c \in {d \in Callbacks : cb[d].pc = "configuring" /\ GLOBAL_STATE = s}}
  \cup
  {<<"frame", l>> : l \in {m \in Loops : m = s /\ loops[m].pc # "idle"}}

FrameInProgress == \E k \in 1..Len(stack) : stack[k][1] = "frame"

\* The loop will never run again: idle with no animation frame requested.
Stopped(l) == loops[l].pc = "idle" /\ loops[l].requests = 0

\* C1: at most one State is ever created and stored into GLOBAL_STATE, and a
\* stored State is never replaced by another one.
C1_SingleState == Len(states) <= 1 /\ Len(installs) <= 1

\* C2: at most one handler holds the mutable borrow of a State at a time, and
\* every change of a State's size or surface_config after its creation is
\* made by an activation that holds the borrow.
C2_MutualExclusion ==
  /\ [](\A s \in States : Cardinality(Holders(s)) <= 1)
  /\ [][\A s \in States :
          Dims(states'[s]) # Dims(states[s])
            => /\ states'[s].borrow = WRITING
               /\ \E c \in Callbacks : Holders(s)' = {<<"cb", c>>}]_vars

C2_Witness ==
  \E c \in Callbacks :
    /\ cb[c].pc = "configuring"
    /\ lastResize.configures = 1
    /\ loops[GLOBAL_STATE].requests = 1
    /\ states[GLOBAL_STATE].borrow = WRITING

\* C3: a frame closure that runs while its State is borrowed changes no State,
\* does not call render, ends normally and has requested the next frame.
C3_SkipOnContention ==
  [][\A l \in Loops :
       (FrameEnter(l) /\ states[l].borrow # UNUSED)
         => /\ states' = states
            /\ stack' = stack
            /\ loops'[l].pc = "idle"
            /\ loops'[l].requests = 1
            /\ lastFrame' = [result |-> "skipped", logged |-> TRUE]]_vars

C3_Witness ==
  /\ lastFrame.result = "skipped"
  /\ \E c \in Callbacks : cb[c].pc = "configuring" /\ loops[GLOBAL_STATE].requests = 1

\* C4 as stated: whatever the render failure, the frame handler never
\* reconfigures the surface and always goes on to request the next frame.
C4_OnlyLogAndSkip ==
  \A l \in Loops : loops[l].pc # "reconfiguring" /\ ~Stopped(l)

\* C4 as amended: Timeout, Outdated and Other are logged and the next frame is
\* requested; Lost reconfigures the surface with the unchanged surface_config,
\* logs and requests the next frame; OutOfMemory is logged and no further
\* frame is requested.
C4_FailureArms ==
  [][\A l \in Loops :
       /\ \A res \in SurfaceErrors :
            RenderReturn(l, res) =>
              CASE res = "Lost" ->
                     /\ loops'[l].pc = "reconfiguring"
                     /\ states'[l].configured = states[l].surface_config
                     /\ Dims(states'[l]) = Dims(states[l])
                [] res = "OutOfMemory" ->
                     /\ Stopped(l)'
                     /\ states'[l] = [states[l] EXCEPT !.borrow = UNUSED]
                     /\ lastFrame' = [result |-> res, logged |-> TRUE]
                [] OTHER ->
                     /\ loops'[l] = [pc |-> "idle", requests |-> 1]
                     /\ states'[l] = [states[l] EXCEPT !.borrow = UNUSED]
                     /\ lastFrame' = [result |-> res, logged |-> TRUE]
       /\ ReconfigureReturn(l) =>
            /\ loops'[l] = [pc |-> "idle", requests |-> 1]
            /\ states'[l] = [states[l] EXCEPT !.borrow = UNUSED]
            /\ lastFrame' = [result |-> "Lost", logged |-> TRUE]]_vars

C4_Witness ==
  /\ Len(loops) = 1
  /\ lastFrame.result \in {"Timeout", "Outdated", "Other"}
  /\ loops[1] = [pc |-> "idle", requests |-> 1]

\* C5: no step of a frame closure, and no step taken while a frame closure is
\* in progress, changes any State's size or surface_config; a step that
\* changes them is a step of the resize handler.
C5_FrameKeepsDims ==
  [][/\ ( \/ FrameInProgress
          \/ \E l \in Loops : FrameEnter(l) )
        => \A s \in States : Dims(states'[s]) = Dims(states[s])
     /\ (\E s \in States : Dims(states'[s]) # Dims(states[s]))
        => \E c \in Callbacks, new_size \in NewSizes : ResizeEntry(c, new_size)]_vars

C5_Witness ==
  /\ lastFrame.result = "Lost"
  /\ Len(states) = 1
  /\ loops[1].pc = "idle"
  /\ states[1].size = <<2, 1>>

\* C6: a run of the frame closure ends with exactly one animation frame
\* requested, except after OutOfMemory, when none is requested; a loop with
\* no frame requested never runs again.
C6_LoopContinuation ==
  [][\A l \in Loops :
       /\ ( \/ loops[l].pc # "idle" /\ loops'[l].pc = "idle"
            \/ FrameEnter(l) /\ loops'[l].pc = "idle" )
          => loops'[l].requests = IF lastFrame'.result = "OutOfMemory" THEN 0 ELSE 1
       /\ loops[l].pc # "idle" => loops[l].requests = 0
       /\ Stopped(l) => loops'[l] = loops[l]]_vars

C6_Witness ==
  \E c \in Callbacks :
    /\ cb[c].pc = "configuring"
    /\ Stopped(GLOBAL_STATE)

\* C7: a resize entry that obtains the borrow of the stored State sets size and
\* surface_config to new_size and configures the surface once when new_size
\* differs from the State's size, and otherwise leaves the State as it is and
\* does not configure the surface.
C7_ResizeApplies ==
  [][\A c \in Callbacks, new_size \in NewSizes :
       (ResizeEntry(c, new_size) /\ states[GLOBAL_STATE].borrow = UNUSED)
         => IF states[GLOBAL_STATE].size # new_size
              THEN /\ states'[GLOBAL_STATE].size = new_size
                   /\ states'[GLOBAL_STATE].surface_config = new_size
                   /\ states'[GLOBAL_STATE].configured = new_size
                   /\ lastResize'.configures = 1
              ELSE /\ states' = states
                   /\ lastResize'.configures = 0]_vars

C7_Witness ==
  \E c \in Callbacks :
    /\ cb[c].pc = "configuring"
    /\ lastResize = [called |-> TRUE, new_size |-> <<2, 1>>, configures |-> 1]
    /\ states[GLOBAL_STATE].size = <<2, 1>>
    /\ backend = "rejects_zero_area"

\* C8: State::resize with a zero width or height leaves the State as it is
\* and does not configure the surface.
C8_ZeroRejected ==
  [][\A new_size \in DirectSizes :
       (DirectResize(new_size) /\ ZeroArea(new_size))
         => /\ states' = states
            /\ lastResize'.configures = 0]_vars

C8_Witness ==
  /\ lastResize.called
  /\ ZeroArea(lastResize.new_size)
  /\ states[1].size = <<2, 3>>

\* C9: every State has a width and a height of at least 1, in size and in
\* surface_config.
C9_NoZeroSize ==
  \A s \in States : ~ZeroArea(states[s].size) /\ ~ZeroArea(states[s].surface_config)

\* C10: a callback whose State creation failed has a rejected promise and has
\* left its remaining entries unprocessed, without having stored a State.
C10_FailureRejects ==
  \A c \in Callbacks :
    cb[c].pc = "trapped" => cb[c].promise = "rejected" /\ cb[c].i < cb[c].len

\* C11: every State's size equals its surface_config width and height, and
\* that is the size the surface was last configured with.
C11_SizeConsistent ==
  \A s \in States :
    /\ states[s].size = states[s].surface_config
    /\ states[s].configured = states[s].size

C11_Witness ==
  \E c \in Callbacks :
    /\ Len(states) = 1
    /\ cb[c].pc = "configuring"
    /\ lastResize = [called |-> TRUE, new_size |-> <<1, 1>>, configures |-> 1]
    /\ states[1].size = <<1, 1>>
    /\ states[1].surface_config = <<1, 1>>
    /\ states[1].configured = <<1, 1>>
====
